---- MODULE Spec2Model ----
(***************************************************************************)
(* Model of src/src/history_summary.rs: the exchange renderer, the summary *)
(* template substitution and the chat-history compactor.                   *)
(*                                                                         *)
(* Text.  A Rust String is modelled as a sequence of lexemes.  A lexeme is *)
(* a TLA+ string standing for a run of characters that the code never      *)
(* splits: an ordinary word ("RESULT"), one whitespace character (" " or   *)
(* "\n"), one placeholder token ("{summary}") or one fixed piece of the    *)
(* rendered layout.  trim, trim_end_matches, contains, replace, push_str   *)
(* and join are computed on these sequences as the code computes them on   *)
(* characters.                                                             *)
(*                                                                         *)
(* Option<T> is a sequence of length at most one: <<>> is None and <<x>>   *)
(* is Some(x).  Rust indices are 0-based, the sequences here are 1-based.  *)
(***************************************************************************)
EXTENDS Integers, Sequences, FiniteSets, TLC

VARIABLES
  chat_history,   \* the Vec<AugmentChatHistory> handed to compact_chat_history
  before,         \* chat_history as it was when the last call started
  calls,          \* number of compact_chat_history calls made so far
  value,          \* the serde_json Value handed to render_history_summary_node_value
  extra,          \* its extra_tool_results argument
  rendered,       \* <<>> before the call, <<result>> after (result is an Option)
  exchange,       \* the HistoryEndExchange handed to build_exchange_render_ctx
  ctx             \* <<>> before the call, <<ExchangeRenderCtx>> after

vars == <<chat_history, before, calls, value, extra, rendered, exchange, ctx>>

(***************************************************************************)
(* Bounds of the model.                                                    *)
(***************************************************************************)
MaxHist == 2        \* Spec: entries in the input history
MaxNodes == 3       \* Spec: request nodes in the input history, all entries together
MaxLongHist == 3    \* SpecLong: entries in the input history
MaxLongNodes == 2   \* SpecLong: request nodes in the input history
MaxCalls == 2       \* compact_chat_history calls in a row
MaxTemplate == 2    \* SpecRender: lexemes in a message_template
MaxResp == 3        \* SpecExchange: response nodes of an exchange

(***************************************************************************)
(* Node type tags (crate::protocol).                                       *)
(***************************************************************************)
REQUEST_NODE_TEXT == "REQUEST_NODE_TEXT"
REQUEST_NODE_TOOL_RESULT == "REQUEST_NODE_TOOL_RESULT"
REQUEST_NODE_HISTORY_SUMMARY == "REQUEST_NODE_HISTORY_SUMMARY"
RESPONSE_NODE_RAW_RESPONSE == "RESPONSE_NODE_RAW_RESPONSE"
RESPONSE_NODE_MAIN_TEXT_FINISHED == "RESPONSE_NODE_MAIN_TEXT_FINISHED"
RESPONSE_NODE_THINKING == "RESPONSE_NODE_THINKING"
RESPONSE_NODE_TOOL_USE == "RESPONSE_NODE_TOOL_USE"

(***************************************************************************)
(* String primitives of the Rust standard library, on lexeme sequences.    *)
(***************************************************************************)
IsWhitespace(c) == c \in {" ", "\n"}

RECURSIVE TrimStart(_)
TrimStart(s) ==
  IF s # <<>> /\ IsWhitespace(Head(s)) THEN TrimStart(Tail(s)) ELSE s

RECURSIVE TrimEnd(_)
TrimEnd(s) ==
  IF s # <<>> /\ IsWhitespace(s[Len(s)])
    THEN TrimEnd(SubSeq(s, 1, Len(s) - 1))
    ELSE s

\* str::trim
Trim(s) == TrimEnd(TrimStart(s))

\* str::trim_end_matches('\n')
RECURSIVE TrimEndNewlines(_)
TrimEndNewlines(s) ==
  IF s # <<>> /\ s[Len(s)] = "\n"
    THEN TrimEndNewlines(SubSeq(s, 1, Len(s) - 1))
    ELSE s

\* s.trim().is_empty()
IsBlank(s) == Trim(s) = <<>>

\* str::contains for a one-lexeme pattern
StrContains(s, k) == \E i \in 1..Len(s) : s[i] = k

\* str::replace for a one-lexeme pattern: every occurrence, left to right
RECURSIVE StrReplace(_, _, _)
StrReplace(s, k, v) ==
  IF s = <<>> THEN <<>>
  ELSE (IF Head(s) = k THEN v ELSE <<Head(s)>>) \o StrReplace(Tail(s), k, v)

\* [String]::join
RECURSIVE Join(_, _)
Join(parts, sep) ==
  IF parts = <<>> THEN <<>>
  ELSE IF Len(parts) = 1 THEN Head(parts)
  ELSE Head(parts) \o sep \o Join(Tail(parts), sep)

Digit(d) ==
  CASE d = 0 -> "0" [] d = 1 -> "1" [] d = 2 -> "2" [] d = 3 -> "3"
    [] d = 4 -> "4" [] d = 5 -> "5" [] d = 6 -> "6" [] d = 7 -> "7"
    [] d = 8 -> "8" [] d = 9 -> "9"

RECURSIVE NatToString(_)
NatToString(n) ==
  IF n < 10 THEN <<Digit(n)>>
  ELSE NatToString(n \div 10) \o <<Digit(n % 10)>>

\* i64::to_string
I64ToString(n) == IF n < 0 THEN <<"-">> \o NatToString(0 - n) ELSE NatToString(n)

(***************************************************************************)
(* Records of crate::protocol and of this file.                            *)
(***************************************************************************)
\* NodeIn: the fields this file reads or writes.  The image, file, ide-state
\* and similar payloads are never read here and are left out.
NodeIn(id, node_type, content, text_node, tool_result_node, history_summary_node, tool_use, thinking) ==
  [id |-> id, node_type |-> node_type, content |-> content,
   text_node |-> text_node, tool_result_node |-> tool_result_node,
   history_summary_node |-> history_summary_node,
   tool_use |-> tool_use, thinking |-> thinking]

TextNode(content) == [content |-> content]

ToolResultNode(tool_use_id, content, is_error) ==
  [tool_use_id |-> tool_use_id, content |-> content, is_error |-> is_error]

ToolUse(tool_name, tool_use_id, input_json) ==
  [tool_name |-> tool_name, tool_use_id |-> tool_use_id, input_json |-> input_json]

Thinking(summary) == [summary |-> summary]

HistoryEndExchange(request_message, response_text, request_nodes, response_nodes) ==
  [request_message |-> request_message, response_text |-> response_text,
   request_nodes |-> request_nodes, response_nodes |-> response_nodes]

HistorySummaryNode(summary_text, summarization_request_id, history_beginning_dropped_num_exchanges, history_middle_abridged_text, history_end, message_template) ==
  [summary_text |-> summary_text,
   summarization_request_id |-> summarization_request_id,
   history_beginning_dropped_num_exchanges |-> history_beginning_dropped_num_exchanges,
   history_middle_abridged_text |-> history_middle_abridged_text,
   history_end |-> history_end,
   message_template |-> message_template]

(***************************************************************************)
(* normalize_joined_lines                                                  *)
(***************************************************************************)
RECURSIVE JoinLines(_, _)
JoinLines(lines, out) ==
  IF lines = <<>> THEN out
  ELSE LET line == TrimEndNewlines(Head(lines))
       IN IF line = <<>>
            THEN JoinLines(Tail(lines), out)
            ELSE JoinLines(Tail(lines),
                           (IF out # <<>> THEN out \o <<"\n">> ELSE out) \o line)

normalize_joined_lines(lines) == JoinLines(lines, <<>>)

(***************************************************************************)
(* extract_user_message_from_request_nodes                                 *)
(***************************************************************************)
RECURSIVE TextContents(_)
TextContents(nodes) ==
  IF nodes = <<>> THEN <<>>
  ELSE LET n == Head(nodes)
       IN (IF n.node_type = REQUEST_NODE_TEXT /\ n.text_node # <<>>
             THEN <<n.text_node[1].content>>
             ELSE <<>>) \o TextContents(Tail(nodes))

extract_user_message_from_request_nodes(nodes, fallback_request_message) ==
  LET joined == normalize_joined_lines(TextContents(nodes))
  IN IF ~IsBlank(joined) THEN joined ELSE fallback_request_message

(***************************************************************************)
(* build_exchange_render_ctx                                               *)
(***************************************************************************)
RECURSIVE ToolResultCtxs(_)
ToolResultCtxs(nodes) ==
  IF nodes = <<>> THEN <<>>
  ELSE LET n == Head(nodes)
       IN (IF n.node_type = REQUEST_NODE_TOOL_RESULT
              /\ n.tool_result_node # <<>>
              /\ ~IsBlank(n.tool_result_node[1].tool_use_id)
             THEN <<[id |-> n.tool_result_node[1].tool_use_id,
                     content |-> n.tool_result_node[1].content,
                     is_error |-> n.tool_result_node[1].is_error]>>
             ELSE <<>>) \o ToolResultCtxs(Tail(nodes))

RECURSIVE ThinkingSummaries(_)
ThinkingSummaries(nodes) ==
  IF nodes = <<>> THEN <<>>
  ELSE LET n == Head(nodes)
       IN (IF n.node_type = RESPONSE_NODE_THINKING
              /\ n.thinking # <<>>
              /\ ~IsBlank(n.thinking[1].summary)
             THEN <<n.thinking[1].summary>>
             ELSE <<>>) \o ThinkingSummaries(Tail(nodes))

\* The loop over response_nodes: acc = [finished_text, raw]
RECURSIVE ResponseLoop(_, _)
ResponseLoop(nodes, acc) ==
  IF nodes = <<>> THEN acc
  ELSE LET n == Head(nodes)
       IN IF n.node_type = RESPONSE_NODE_MAIN_TEXT_FINISHED /\ ~IsBlank(n.content)
            THEN ResponseLoop(Tail(nodes), [acc EXCEPT !.finished_text = <<n.content>>])
          ELSE IF n.node_type = RESPONSE_NODE_RAW_RESPONSE /\ ~IsBlank(n.content)
            THEN ResponseLoop(Tail(nodes), [acc EXCEPT !.raw = acc.raw \o n.content])
          ELSE ResponseLoop(Tail(nodes), acc)

ResolveResponseText(ex) ==
  LET acc == ResponseLoop(ex.response_nodes, [finished_text |-> <<>>, raw |-> <<>>])
      response_text == Trim(IF acc.finished_text # <<>> THEN acc.finished_text[1]
                                                         ELSE acc.raw)
  IN IF response_text = <<>> /\ ~IsBlank(ex.response_text)
       THEN Trim(ex.response_text)
       ELSE response_text

RECURSIVE ToolUseCtxs(_)
ToolUseCtxs(nodes) ==
  IF nodes = <<>> THEN <<>>
  ELSE LET n == Head(nodes)
       IN (IF n.node_type = RESPONSE_NODE_TOOL_USE
              /\ n.tool_use # <<>>
              /\ ~IsBlank(n.tool_use[1].tool_use_id)
              /\ ~IsBlank(n.tool_use[1].tool_name)
             THEN <<[name |-> n.tool_use[1].tool_name,
                     id |-> n.tool_use[1].tool_use_id,
                     input |-> n.tool_use[1].input_json]>>
             ELSE <<>>) \o ToolUseCtxs(Tail(nodes))

build_exchange_render_ctx(ex) ==
  LET user_message ==
        extract_user_message_from_request_nodes(ex.request_nodes, ex.request_message)
      tool_results == ToolResultCtxs(ex.request_nodes)
      thinking == normalize_joined_lines(ThinkingSummaries(ex.response_nodes))
      response_text == ResolveResponseText(ex)
      tool_uses == ToolUseCtxs(ex.response_nodes)
  IN [user_message |-> user_message,
      tool_results |-> tool_results,
      thinking |-> thinking,
      response_text |-> response_text,
      tool_uses |-> tool_uses,
      has_response |-> (thinking # <<>> \/ response_text # <<>> \/ tool_uses # <<>>)]

(***************************************************************************)
(* render_exchange_full                                                    *)
(***************************************************************************)
RenderToolResult(tr) ==
  <<"    <tool_result tool_use_id=\"">> \o Trim(tr.id)
    \o <<"\" is_error=\"", (IF tr.is_error THEN "true" ELSE "false"), "\">", "\n">>
    \o (IF ~IsBlank(tr.content) THEN TrimEndNewlines(tr.content) \o <<"\n">> ELSE <<>>)
    \o <<"    </tool_result>", "\n">>

RenderToolUse(tu) ==
  <<"    <tool_use name=\"">> \o Trim(tu.name)
    \o <<"\" tool_use_id=\"">> \o Trim(tu.id) \o <<"\">", "\n">>
    \o (IF ~IsBlank(tu.input) THEN TrimEndNewlines(tu.input) \o <<"\n">> ELSE <<>>)
    \o <<"    </tool_use>", "\n">>

RECURSIVE Concat(_)
Concat(parts) == IF parts = <<>> THEN <<>> ELSE Head(parts) \o Concat(Tail(parts))

render_exchange_full(c) ==
  <<"<exchange>", "\n", "  <user_request_or_tool_results>", "\n">>
    \o (IF ~IsBlank(c.user_message)
          THEN TrimEndNewlines(c.user_message) \o <<"\n">> ELSE <<>>)
    \o Concat([i \in 1..Len(c.tool_results) |-> RenderToolResult(c.tool_results[i])])
    \o <<"  </user_request_or_tool_results>", "\n">>
    \o (IF c.has_response
          THEN <<"  <agent_response_or_tool_uses>", "\n">>
                 \o (IF ~IsBlank(c.thinking)
                       THEN <<"    <thinking>", "\n">> \o TrimEndNewlines(c.thinking)
                              \o <<"\n", "    </thinking>", "\n">>
                       ELSE <<>>)
                 \o (IF ~IsBlank(c.response_text)
                       THEN TrimEndNewlines(c.response_text) \o <<"\n">> ELSE <<>>)
                 \o Concat([i \in 1..Len(c.tool_uses) |-> RenderToolUse(c.tool_uses[i])])
                 \o <<"  </agent_response_or_tool_uses>", "\n">>
          ELSE <<>>)
    \o <<"</exchange>">>

(***************************************************************************)
(* replace_placeholders                                                    *)
(***************************************************************************)
\* repl is the slice of (token, value) pairs, visited in order; each step
\* rewrites the template produced by the steps before it.
RECURSIVE replace_placeholders(_, _)
replace_placeholders(template, repl) ==
  IF repl = <<>> THEN template
  ELSE LET k == Head(repl)[1]
           v == Head(repl)[2]
       IN replace_placeholders(
            IF StrContains(template, k) THEN StrReplace(template, k, v) ELSE template,
            Tail(repl))

(***************************************************************************)
(* render_history_summary_node_value                                       *)
(***************************************************************************)
\* A serde_json Value: [kind, obj].  kind "object" carries the fields as serde
\* reads them into HistorySummaryNode (absent fields already defaulted); the
\* kinds "null" and "string" are values the struct cannot be read from.
ObjectValue(node) == [kind |-> "object", obj |-> node]
DefaultNode == HistorySummaryNode(<<>>, <<>>, 0, <<>>, <<>>, <<>>)
NullValue == [kind |-> "null", obj |-> DefaultNode]
StringValue == [kind |-> "string", obj |-> DefaultNode]

\* serde_json::from_value::<HistorySummaryNode>(v).ok()
FromValue(v) == IF v.kind = "object" THEN <<v.obj>> ELSE <<>>

\* node.history_end after the synthetic exchange is pushed
HistoryEndWithExtra(node, extra_tool_results) ==
  IF extra_tool_results # <<>>
    THEN Append(node.history_end,
                HistoryEndExchange(<<>>, <<>>, extra_tool_results, <<>>))
    ELSE node.history_end

EndPartFull(history_end) ==
  Join([i \in 1..Len(history_end) |->
          render_exchange_full(build_exchange_render_ctx(history_end[i]))],
       <<"\n">>)

Replacements(node, end_part_full) ==
  << <<"{summary}", node.summary_text>>,
     <<"{summarization_request_id}", node.summarization_request_id>>,
     <<"{beginning_part_dropped_num_exchanges}",
       I64ToString(node.history_beginning_dropped_num_exchanges)>>,
     <<"{middle_part_abridged}", node.history_middle_abridged_text>>,
     <<"{end_part_full}", end_part_full>>,
     <<"{abridged_history}", node.history_middle_abridged_text>> >>

render_history_summary_node_value(v, extra_tool_results) ==
  LET decoded == FromValue(v)
  IN IF decoded = <<>> THEN <<>>
     ELSE LET node == decoded[1]
          IN IF IsBlank(node.message_template) THEN <<>>
             ELSE LET end_part_full ==
                        EndPartFull(HistoryEndWithExtra(node, extra_tool_results))
                  IN <<replace_placeholders(node.message_template,
                                            Replacements(node, end_part_full))>>

(***************************************************************************)
(* compact_chat_history                                                    *)
(***************************************************************************)
AugmentChatHistory(request_id, request_message, response_text, request_nodes, structured_request_nodes, nodes) ==
  [request_id |-> request_id, request_message |-> request_message,
   response_text |-> response_text, request_nodes |-> request_nodes,
   structured_request_nodes |-> structured_request_nodes, nodes |-> nodes,
   response_nodes |-> <<>>, structured_output_nodes |-> <<>>]

\* crate::protocol: a node of type HistorySummary
is_history_summary_node(n) == n.node_type = REQUEST_NODE_HISTORY_SUMMARY

has_history_summary_node(nodes) ==
  \E i \in 1..Len(nodes) : is_history_summary_node(nodes[i])

chat_history_item_has_summary(item) ==
  \/ has_history_summary_node(item.request_nodes)
  \/ has_history_summary_node(item.structured_request_nodes)
  \/ has_history_summary_node(item.nodes)

\* Variant: with no summary anywhere, the last entry is taken as the checkpoint.
SummaryRPositionOrLast(history) ==
  LET hits == {i \in 1..Len(history) : chat_history_item_has_summary(history[i])}
  IN IF hits = {} THEN (IF history = <<>> THEN <<>> ELSE <<Len(history)>>)
     ELSE <<CHOOSE i \in hits : \A j \in hits : j <= i>>

\* chat_history.iter().rposition(chat_history_item_has_summary)
SummaryRPosition(history) ==
  LET hits == {i \in 1..Len(history) : chat_history_item_has_summary(history[i])}
  IN IF hits = {} THEN <<>>
     ELSE <<CHOOSE i \in hits : \A j \in hits : j <= i>>

\* Variant: the entries before the checkpoint are not drained.
DrainBeforeKeepingAll(history, start) == history

\* if start > 0 { chat_history.drain(0..start) }   (start is 1-based here)
DrainBefore(history, start) ==
  IF start > 1 THEN SubSeq(history, start, Len(history)) ELSE history

\* Variant: the lists are appended in another order.
MergeNodeListsReordered(first) ==
  first.nodes \o first.structured_request_nodes \o first.request_nodes

\* the three appends into req_nodes
MergeNodeLists(first) ==
  first.request_nodes \o first.structured_request_nodes \o first.nodes

\* req_nodes.iter().position(NodeIn::is_history_summary_node)
SummaryPosition(req_nodes) ==
  LET hits == {i \in 1..Len(req_nodes) : is_history_summary_node(req_nodes[i])}
  IN IF hits = {} THEN <<>>
     ELSE <<CHOOSE i \in hits : \A j \in hits : i <= j>>

\* req_nodes[summary_pos].history_summary_node.clone().unwrap_or(Value::Null)
SummaryValue(node) ==
  IF node.history_summary_node # <<>> THEN node.history_summary_node[1] ELSE NullValue

CollectToolResults(req_nodes) ==
  SelectSeq(req_nodes,
            LAMBDA n : n.node_type = REQUEST_NODE_TOOL_RESULT
                       /\ n.tool_result_node # <<>>)

\* Variant: only the nodes that were handed to the renderer are dropped.
OtherNodesKeepingUndecoded(req_nodes) ==
  SelectSeq(req_nodes,
            LAMBDA n : n.node_type # REQUEST_NODE_HISTORY_SUMMARY
                       /\ ~(n.node_type = REQUEST_NODE_TOOL_RESULT
                            /\ n.tool_result_node # <<>>))

OtherNodes(req_nodes) ==
  SelectSeq(req_nodes,
            LAMBDA n : n.node_type # REQUEST_NODE_HISTORY_SUMMARY
                       /\ n.node_type # REQUEST_NODE_TOOL_RESULT)

SummaryTextNode(summary_id, text) ==
  NodeIn(summary_id, REQUEST_NODE_TEXT, <<>>, <<TextNode(text)>>, <<>>, <<>>, <<>>, <<>>)

\* Variant: the merge copies the lists instead of moving them.
StoreRequestNodesKeepingLists(first, new_nodes) ==
  [first EXCEPT !.request_nodes = new_nodes]

\* first.request_nodes = ...; the appends have emptied all three lists before
StoreRequestNodes(first, new_nodes) ==
  [first EXCEPT !.request_nodes = new_nodes,
                !.structured_request_nodes = <<>>,
                !.nodes = <<>>]

\* Variant: the failure branch drops the tool results all the same.
UnrenderedNodesLossy(req_nodes) ==
  SelectSeq(req_nodes, LAMBDA n : n.node_type # REQUEST_NODE_TOOL_RESULT)

\* what the render failure branch stores
UnrenderedNodes(req_nodes) == req_nodes

\* the body of compact_chat_history from the merge on, for the first entry
RewriteFirst(first) ==
  LET req_nodes == MergeNodeLists(first)
      summary_pos == SummaryPosition(req_nodes)
  IN IF summary_pos = <<>> THEN StoreRequestNodes(first, req_nodes)
     ELSE LET summary_id == req_nodes[summary_pos[1]].id
              summary_value == SummaryValue(req_nodes[summary_pos[1]])
              tool_results == CollectToolResults(req_nodes)
              text == render_history_summary_node_value(summary_value, tool_results)
          IN IF text = <<>>
               THEN StoreRequestNodes(first, UnrenderedNodes(req_nodes))
               ELSE StoreRequestNodes(first,
                      <<SummaryTextNode(summary_id, text[1])>> \o OtherNodes(req_nodes))

compact_chat_history(history) ==
  LET start == SummaryRPosition(history)
  IN IF start = <<>> THEN history
     ELSE LET drained == DrainBefore(history, start[1])
          IN IF drained = <<>> THEN drained
             ELSE <<RewriteFirst(Head(drained))>> \o Tail(drained)

(***************************************************************************)
(* Inputs.                                                                 *)
(***************************************************************************)
StoredExchange ==
  HistoryEndExchange(<<"hello">>, <<"world">>, <<>>,
    <<NodeIn(1, RESPONSE_NODE_MAIN_TEXT_FINISHED, <<"world">>,
             <<>>, <<>>, <<>>, <<>>, <<>>)>>)

PayloadOk ==
  HistorySummaryNode(<<"S">>, <<"req">>, 1, <<"AB">>, <<StoredExchange>>,
    <<"<supervisor>", "{summary}", "{end_part_full}", "</supervisor>">>)

PayloadBlank ==
  HistorySummaryNode(<<"S">>, <<"req">>, 1, <<>>, <<>>, <<" ">>)

SummaryNodeOk ==
  NodeIn(1, REQUEST_NODE_HISTORY_SUMMARY, <<>>, <<>>, <<>>,
         <<ObjectValue(PayloadOk)>>, <<>>, <<>>)
SummaryNodeBlank ==
  NodeIn(2, REQUEST_NODE_HISTORY_SUMMARY, <<>>, <<>>, <<>>,
         <<ObjectValue(PayloadBlank)>>, <<>>, <<>>)
SummaryNodeUndecodable ==
  NodeIn(9, REQUEST_NODE_HISTORY_SUMMARY, <<>>, <<>>, <<>>,
         <<StringValue>>, <<>>, <<>>)
SummaryNodeMissing ==
  NodeIn(3, REQUEST_NODE_HISTORY_SUMMARY, <<>>, <<>>, <<>>, <<>>, <<>>, <<>>)
ToolResultOk ==
  NodeIn(4, REQUEST_NODE_TOOL_RESULT, <<>>, <<>>,
         <<ToolResultNode(<<"tool-1">>, <<"RESULT", "\n">>, FALSE)>>, <<>>, <<>>, <<>>)
ToolResultToken ==
  NodeIn(5, REQUEST_NODE_TOOL_RESULT, <<>>, <<>>,
         <<ToolResultNode(<<" ", "tool-2">>, <<"{abridged_history}">>, TRUE)>>,
         <<>>, <<>>, <<>>)
ToolResultBlankId ==
  NodeIn(6, REQUEST_NODE_TOOL_RESULT, <<>>, <<>>,
         <<ToolResultNode(<<" ">>, <<"LOST">>, FALSE)>>, <<>>, <<>>, <<>>)
ToolResultMissing ==
  NodeIn(7, REQUEST_NODE_TOOL_RESULT, <<"raw">>, <<>>, <<>>, <<>>, <<>>, <<>>)
UserTextNode ==
  NodeIn(8, REQUEST_NODE_TEXT, <<>>, <<TextNode(<<"hi">>)>>, <<>>, <<>>, <<>>, <<>>)

\* Spec: the nodes of an entry whose marker renders or has a blank template
NodePool ==
  {SummaryNodeOk, SummaryNodeBlank, ToolResultToken, ToolResultMissing, UserTextNode}

\* SpecLong: every kind of node
LongNodePool ==
  {SummaryNodeOk, SummaryNodeBlank, SummaryNodeMissing, SummaryNodeUndecodable,
   ToolResultOk, ToolResultMissing, UserTextNode}

NodeLists == {"request_nodes", "structured_request_nodes", "nodes"}

TotalNodes(history) ==
  LET RECURSIVE Sum(_)
      Sum(h) == IF h = <<>> THEN 0
                ELSE Len(MergeNodeLists(Head(h))) + Sum(Tail(h))
  IN Sum(history)

NoExchange == HistoryEndExchange(<<>>, <<>>, <<>>, <<>>)

(***************************************************************************)
(* The compactor as a state machine: the caller builds a history, then     *)
(* calls compact_chat_history on it, and may call it again on the result.  *)
(***************************************************************************)
Init ==
  /\ chat_history = <<>>
  /\ before = <<>>
  /\ calls = 0
  /\ value = NullValue
  /\ extra = <<>>
  /\ rendered = <<>>
  /\ exchange = NoExchange
  /\ ctx = <<>>

PushEntryUpTo(max_hist) ==
  /\ calls = 0
  /\ Len(chat_history) < max_hist
  /\ chat_history' =
       Append(chat_history,
              AugmentChatHistory(Len(chat_history), <<>>, <<>>, <<>>, <<>>, <<>>))
  /\ UNCHANGED <<before, calls, value, extra, rendered, exchange, ctx>>

PushNodeUpTo(max_nodes, pool) ==
  /\ calls = 0
  /\ chat_history # <<>>
  /\ TotalNodes(chat_history) < max_nodes
  /\ \E n \in pool, list \in NodeLists :
       LET last == Len(chat_history)
       IN chat_history' =
            [chat_history EXCEPT ![last] =
               CASE list = "request_nodes" ->
                      [@ EXCEPT !.request_nodes = Append(@, n)]
                 [] list = "structured_request_nodes" ->
                      [@ EXCEPT !.structured_request_nodes = Append(@, n)]
                 [] list = "nodes" ->
                      [@ EXCEPT !.nodes = Append(@, n)]]
  /\ UNCHANGED <<before, calls, value, extra, rendered, exchange, ctx>>

PushEntry == PushEntryUpTo(MaxHist)
PushNode == PushNodeUpTo(MaxNodes, NodePool)

Compact ==
  /\ calls < MaxCalls
  /\ before' = chat_history
  /\ chat_history' = compact_chat_history(chat_history)
  /\ calls' = calls + 1
  /\ UNCHANGED <<value, extra, rendered, exchange, ctx>>

Next == PushEntry \/ PushNode \/ Compact

Spec == Init /\ [][Next]_vars

\* The same machine on longer histories with fewer nodes.
LongPushEntry == PushEntryUpTo(MaxLongHist)
LongPushNode == PushNodeUpTo(MaxLongNodes, LongNodePool)

NextLong == LongPushEntry \/ LongPushNode \/ Compact

SpecLong == Init /\ [][NextLong]_vars

(***************************************************************************)
(* render_history_summary_node_value as a state machine: one call on an    *)
(* input drawn from RenderValues x ExtraChoices.                           *)
(***************************************************************************)
Tokens ==
  {"{summary}", "{summarization_request_id}",
   "{beginning_part_dropped_num_exchanges}", "{middle_part_abridged}",
   "{end_part_full}", "{abridged_history}"}

TemplateLexemes == Tokens \cup {"x", " "}

RECURSIVE SeqsUpTo(_, _)
SeqsUpTo(S, n) ==
  IF n = 0 THEN {<<>>}
  ELSE LET shorter == SeqsUpTo(S, n - 1)
       IN shorter \cup {Append(t, x) : t \in shorter, x \in S}

Templates == SeqsUpTo(TemplateLexemes, MaxTemplate)

RenderNodes ==
  {HistorySummaryNode(st, id, d, ab, he, t) :
     st \in {<<"SUM">>, <<"{end_part_full}">>},
     id \in {<<"req_123">>},
     d \in {7, 12},
     ab \in {<<"AB">>, <<"{summary}">>, <<"{abridged_history}">>},
     he \in {<<>>, <<StoredExchange>>},
     t \in Templates}

RenderValues == {ObjectValue(n) : n \in RenderNodes} \cup {NullValue, StringValue}

ExtraChoices == {<<>>, <<ToolResultOk>>, <<ToolResultBlankId, ToolResultToken>>}

InitRender ==
  /\ chat_history = <<>>
  /\ before = <<>>
  /\ calls = 0
  /\ value \in RenderValues
  /\ extra \in ExtraChoices
  /\ rendered = <<>>
  /\ exchange = NoExchange
  /\ ctx = <<>>

Render ==
  /\ rendered = <<>>
  /\ rendered' = <<render_history_summary_node_value(value, extra)>>
  /\ UNCHANGED <<chat_history, before, calls, value, extra, exchange, ctx>>

NextRender == Render

SpecRender == InitRender /\ [][NextRender]_vars

(***************************************************************************)
(* build_exchange_render_ctx as a state machine: one call on an exchange   *)
(* drawn from Exchanges.                                                   *)
(***************************************************************************)
ResponseNode(id, node_type, content) ==
  NodeIn(id, node_type, content, <<>>, <<>>, <<>>, <<>>, <<>>)

ResponsePool ==
  {ResponseNode(1, RESPONSE_NODE_MAIN_TEXT_FINISHED, <<"done", "\n">>),
   ResponseNode(2, RESPONSE_NODE_MAIN_TEXT_FINISHED, <<" ">>),
   ResponseNode(3, RESPONSE_NODE_RAW_RESPONSE, <<"a">>),
   ResponseNode(4, RESPONSE_NODE_RAW_RESPONSE, <<" ">>),
   ResponseNode(5, RESPONSE_NODE_RAW_RESPONSE, <<"b">>)}

Exchanges ==
  {HistoryEndExchange(<<"hello">>, rt, <<>>, rn) :
     rt \in {<<>>, <<" ", "fallback", "\n">>},
     rn \in SeqsUpTo(ResponsePool, MaxResp)}

InitExchange ==
  /\ chat_history = <<>>
  /\ before = <<>>
  /\ calls = 0
  /\ value = NullValue
  /\ extra = <<>>
  /\ rendered = <<>>
  /\ exchange \in Exchanges
  /\ ctx = <<>>

BuildCtx ==
  /\ ctx = <<>>
  /\ ctx' = <<build_exchange_render_ctx(exchange)>>
  /\ UNCHANGED <<chat_history, before, calls, value, extra, rendered, exchange>>

NextExchange == BuildCtx

SpecExchange == InitExchange /\ [][NextExchange]_vars

(***************************************************************************)
(* Vocabulary of the properties below, read off `before`, the history the  *)
(* last call started from.                                                 *)
(***************************************************************************)
Called == calls >= 1

EntryNodes(entry) ==
  entry.request_nodes \o entry.structured_request_nodes \o entry.nodes

HasSummaryType(entry) ==
  LET ns == EntryNodes(entry)
  IN \E i \in 1..Len(ns) : ns[i].node_type = REQUEST_NODE_HISTORY_SUMMARY

CheckpointIndexes == {i \in 1..Len(before) : HasSummaryType(before[i])}

HasCheckpoint == CheckpointIndexes # {}

\* the last entry with a HistorySummary node (1-based)
K == CHOOSE i \in CheckpointIndexes : \A j \in CheckpointIndexes : j <= i

Merged == EntryNodes(before[K])

\* the first HistorySummary node of a merged list
FirstSummaryIndex(m) ==
  CHOOSE i \in 1..Len(m) :
    /\ m[i].node_type = REQUEST_NODE_HISTORY_SUMMARY
    /\ \A j \in 1..(i - 1) : m[j].node_type # REQUEST_NODE_HISTORY_SUMMARY

MarkerIndex == FirstSummaryIndex(Merged)

Marker == LET m == Merged IN m[FirstSummaryIndex(m)]

\* the marker carries a decodable payload with a non-blank message_template
MarkerRenderable ==
  LET mk == Marker
  IN /\ mk.history_summary_node # <<>>
     /\ mk.history_summary_node[1].kind = "object"
     /\ ~IsBlank(mk.history_summary_node[1].obj.message_template)

MarkerPayload == Marker.history_summary_node[1].obj

RenderSucceeded == Called /\ HasCheckpoint /\ MarkerRenderable
RenderFailed == Called /\ HasCheckpoint /\ ~MarkerRenderable

IsType(n, t) == n.node_type = t

Decoded(n) == n.tool_result_node # <<>>

\* the text of the node that replaced the marker
NewText == chat_history[1].request_nodes[1].text_node[1].content

\* s occurs in text as a contiguous run, with at least n "</exchange>" before it
OccursAfter(text, s, n) ==
  \E p \in 1..(Len(text) - Len(s) + 1) :
    /\ SubSeq(text, p, p + Len(s) - 1) = s
    /\ Cardinality({q \in 1..(p - 1) : text[q] = "</exchange>"}) >= n

\* the <tool_result> block of a node, as the layout of the renderer gives it
ToolResultBlock(n) ==
  <<"    <tool_result tool_use_id=\"">> \o Trim(n.tool_result_node[1].tool_use_id)
    \o <<"\" is_error=\"",
         (IF n.tool_result_node[1].is_error THEN "true" ELSE "false"), "\">", "\n">>
    \o (IF IsBlank(n.tool_result_node[1].content) THEN <<>>
        ELSE TrimEndNewlines(n.tool_result_node[1].content) \o <<"\n">>)
    \o <<"    </tool_result>", "\n">>

ToolResultHeader(n) ==
  <<"    <tool_result tool_use_id=\"">> \o Trim(n.tool_result_node[1].tool_use_id)
    \o <<"\" is_error=\"">>

(***************************************************************************)
(* C1.  When the marker cannot be rendered (blank message_template, or a   *)
(* missing or undecodable payload), the call rewrites nothing: afterwards  *)
(* the checkpoint entry's request_nodes is exactly request_nodes ++        *)
(* structured_request_nodes ++ nodes of that entry as it was before, every *)
(* node unchanged.                                                         *)
(***************************************************************************)
C1_FallbackKeepsNodes ==
  RenderFailed =>
    /\ chat_history # <<>>
    /\ chat_history[1].request_nodes = Merged

C1_Witness ==
  /\ calls = 1
  /\ RenderFailed
  /\ before[K].structured_request_nodes # <<>>
  /\ before[K].nodes # <<>>
  /\ LET m == Merged
     IN /\ \E i \in 1..Len(m) : IsType(m[i], REQUEST_NODE_TOOL_RESULT)
        /\ chat_history[1].request_nodes = m

(***************************************************************************)
(* C2.  When rendering succeeds, none of the three node lists of the       *)
(* surviving checkpoint entry holds a node of type HistorySummary or       *)
(* ToolResult.                                                             *)
(***************************************************************************)
C2_NoSummaryNoToolResultLeft ==
  RenderSucceeded =>
    /\ chat_history # <<>>
    /\ LET left == EntryNodes(chat_history[1])
       IN \A i \in 1..Len(left) :
            /\ ~IsType(left[i], REQUEST_NODE_HISTORY_SUMMARY)
            /\ ~IsType(left[i], REQUEST_NODE_TOOL_RESULT)

C2_Witness ==
  /\ calls = 1
  /\ RenderSucceeded
  /\ LET m == Merged
     IN /\ Cardinality({i \in 1..Len(m) :
                          IsType(m[i], REQUEST_NODE_HISTORY_SUMMARY)}) >= 2
        /\ \E i \in 1..Len(m) :
             IsType(m[i], REQUEST_NODE_TOOL_RESULT) /\ ~Decoded(m[i])
  /\ Len(EntryNodes(chat_history[1])) = 1

(***************************************************************************)
(* C3.  With k the last entry holding a HistorySummary node, the history   *)
(* after the call is the suffix of the old one from entry k on: its length *)
(* is N - k (0-based k), position 0 is entry k (its node lists possibly    *)
(* rewritten), the later entries follow unchanged and in order, and no     *)
(* entry before k survives.  Rendering may succeed or fail.                *)
(***************************************************************************)
C3_TruncatesToCheckpoint ==
  (Called /\ HasCheckpoint) =>
    /\ Len(chat_history) = Len(before) - K + 1
    /\ chat_history[1].request_id = before[K].request_id
    /\ chat_history[1].request_message = before[K].request_message
    /\ chat_history[1].response_text = before[K].response_text
    /\ chat_history[1].response_nodes = before[K].response_nodes
    /\ chat_history[1].structured_output_nodes = before[K].structured_output_nodes
    /\ \A i \in 2..Len(chat_history) : chat_history[i] = before[K + i - 1]
    /\ \A i \in 1..Len(chat_history), j \in 1..(K - 1) :
         chat_history[i].request_id # before[j].request_id

C3_Witness ==
  /\ calls = 1
  /\ HasCheckpoint
  /\ Len(before) = 3
  /\ K = 2
  /\ HasSummaryType(before[1])
  /\ Len(chat_history) = 2
  /\ chat_history[2] = before[3]

(***************************************************************************)
(* C4.  With a non-blank template holding {end_part_full}, every decoded   *)
(* ToolResult node of the merged list with a non-blank tool_use_id has its *)
(* <tool_result> block, bearing its id and content, in the new Text node;  *)
(* the blocks make up one exchange, in merged order, after the stored tail *)
(* exchanges.                                                              *)
(***************************************************************************)
QualifyingToolResults ==
  SelectSeq(Merged,
            LAMBDA n : IsType(n, REQUEST_NODE_TOOL_RESULT) /\ Decoded(n)
                       /\ ~IsBlank(n.tool_result_node[1].tool_use_id))

SyntheticExchange ==
  <<"<exchange>", "\n", "  <user_request_or_tool_results>", "\n">>
    \o Concat([i \in 1..Len(QualifyingToolResults) |->
                  ToolResultBlock(QualifyingToolResults[i])])
    \o <<"  </user_request_or_tool_results>", "\n", "</exchange>">>

C4_ToolResultsFoldedIn ==
  (/\ RenderSucceeded
   /\ StrContains(MarkerPayload.message_template, "{end_part_full}")
   /\ QualifyingToolResults # <<>>)
    => OccursAfter(NewText, SyntheticExchange, Len(MarkerPayload.history_end))

(***************************************************************************)
(* C5.  Substitution is one pass per token: the output is the template     *)
(* with each token occurrence of the template replaced by its value, and a *)
(* token string inside a value stays literal.                              *)
(***************************************************************************)
TokenValue(node, extra_tool_results, token) ==
  CASE token = "{summary}" -> node.summary_text
    [] token = "{summarization_request_id}" -> node.summarization_request_id
    [] token = "{beginning_part_dropped_num_exchanges}" ->
         I64ToString(node.history_beginning_dropped_num_exchanges)
    [] token = "{middle_part_abridged}" -> node.history_middle_abridged_text
    [] token = "{end_part_full}" ->
         EndPartFull(HistoryEndWithExtra(node, extra_tool_results))
    [] token = "{abridged_history}" -> node.history_middle_abridged_text

SinglePass(node, extra_tool_results) ==
  Concat([i \in 1..Len(node.message_template) |->
            IF node.message_template[i] \in Tokens
              THEN TokenValue(node, extra_tool_results, node.message_template[i])
              ELSE <<node.message_template[i]>>])

C5_ValuesNeverReexpanded ==
  (rendered # <<>> /\ rendered[1] # <<>>) =>
    rendered[1][1] = SinglePass(value.obj, extra)

(***************************************************************************)
(* C6.  When rendering succeeds, the checkpoint entry's request_nodes is:  *)
(* one Text node with the id of the first HistorySummary node of the       *)
(* merged list and the rendered string as its text, then every merged node *)
(* that is neither HistorySummary nor ToolResult, unchanged and in merged  *)
(* order; the other two lists are empty.                                   *)
(***************************************************************************)
RenderedString(m, mk) ==
  render_history_summary_node_value(
    mk.history_summary_node[1],
    SelectSeq(m, LAMBDA n : IsType(n, REQUEST_NODE_TOOL_RESULT) /\ Decoded(n)))[1]

FinishedIndexes ==
  {i \in 1..Len(exchange.response_nodes) :
     /\ exchange.response_nodes[i].node_type = RESPONSE_NODE_MAIN_TEXT_FINISHED
     /\ ~IsBlank(exchange.response_nodes[i].content)}

AllRawText ==
  LET raws == SelectSeq(exchange.response_nodes,
                        LAMBDA n : n.node_type = RESPONSE_NODE_RAW_RESPONSE)
  IN Concat([i \in 1..Len(raws) |-> raws[i].content])

ClaimedResponseText ==
  IF FinishedIndexes # {}
    THEN exchange.response_nodes[
           CHOOSE i \in FinishedIndexes : \A j \in FinishedIndexes : j <= i].content
  ELSE IF ~IsBlank(AllRawText) THEN AllRawText
  ELSE exchange.response_text

C7_ResponseTextSource ==
  ctx # <<>> => ctx[1].response_text = Trim(ClaimedResponseText)

(***************************************************************************)
(* C8.  When rendering succeeds, every node taken out of the merged list   *)
(* is in the rendered text: a removed ToolResult node was handed to the    *)
(* renderer and has a <tool_result> block there, a removed HistorySummary  *)
(* node is the marker that was rendered.                                   *)
(***************************************************************************)
Removed(n) ==
  \A i \in 1..Len(chat_history[1].request_nodes) :
    chat_history[1].request_nodes[i] # n

C8_RemovedNodesAreRendered ==
  RenderSucceeded =>
    LET m == Merged
        mk == m[FirstSummaryIndex(m)]
    IN \A i \in 1..Len(m) :
         Removed(m[i]) =>
           /\ IsType(m[i], REQUEST_NODE_TOOL_RESULT) =>
                /\ Decoded(m[i])
                /\ ~IsBlank(m[i].tool_result_node[1].tool_use_id)
                /\ OccursAfter(NewText, ToolResultHeader(m[i]), 0)
           /\ IsType(m[i], REQUEST_NODE_HISTORY_SUMMARY) => m[i] = mk

(***************************************************************************)
(* C9.  With no HistorySummary node in any list of any entry, the call     *)
(* changes nothing: same length, every entry as it was, no lists merged.   *)
(***************************************************************************)
C9_NoCheckpointNoChange ==
  (Called /\ ~HasCheckpoint) => chat_history = before

C9_Witness ==
  /\ calls = 1
  /\ ~HasCheckpoint
  /\ \E i \in 1..Len(before) :
       before[i].request_nodes # <<>> /\ before[i].nodes # <<>>
  /\ chat_history = before

(***************************************************************************)
(* C10.  A second call on the result of a first one changes nothing,       *)
(* whether the first call rendered the marker or could not.                *)
(***************************************************************************)
C10_Idempotent ==
  calls >= 2 => chat_history = before

C10_Witness ==
  /\ calls = 2
  /\ RenderFailed
  /\ Len(Merged) >= 2
  /\ chat_history = before

====
